---- MODULE Spec2Model ----
(***************************************************************************)
(* Model of src/esp_neopixel.c: the WS2812 bit encoder                     *)
(* (neopixel_buf_to_rmt_items) and the two NIFs nif_rmt_neopixel_init and  *)
(* nif_rmt_neopixel_show working on the process-wide session g_state.      *)
(*                                                                         *)
(* The heap is a small pool of addresses; malloc/calloc take the lowest    *)
(* free address or fail, free() of an address that is not live is recorded *)
(* as a fault.  Each NIF is executed statement by statement by an          *)
(* execution context (ctx[c].pc is its position), so that the states       *)
(* between two statements of a handler are visible.                        *)
(***************************************************************************)
EXTENDS Integers, Sequences, FiniteSets, TLC

VARIABLES g_state, heap, rmt, ctx, faults, aborted, enc, max_copy, line

vars == <<g_state, heap, rmt, ctx, faults, aborted, enc, max_copy, line>>

(***************************************************************************)
(* Bounds of the model                                                     *)
(***************************************************************************)
\* Largest led_count whose buffers the modelled heap can hold.
MaxLeds == 1
\* Longest binary handed to show.
MaxDataLen == 4
\* Number of heap addresses.
NumAddrs == 3
\* Longest byte sequence handed to the stand-alone encoder.
MaxEncLen == 3

(***************************************************************************)
(* Program constants                                                       *)
(***************************************************************************)
RMT_TICK_NS == 25
WS2812_T0H_NS == 350
WS2812_T0L_NS == 900
WS2812_T1H_NS == 900
WS2812_T1L_NS == 350
WS2812_RESET_US == 280
RMT_CHANNEL == 0
\* sizeof(uint8_t) and sizeof(rmt_item32_t), the element sizes given to calloc
SizeofByte == 1
SizeofItem == 4

NS_TO_TICKS(ns) == ns \div RMT_TICK_NS

NULL == 0
\* Value of a pointer field of a malloc'ed record that was never assigned.
Uninit == -1

Addrs == 1..NumAddrs

(***************************************************************************)
(* 32-bit int arithmetic.  The products num_leds * 3 and num_leds * 3 * 8  *)
(* are computed in int; an overflowing product is reduced modulo 2^32 into *)
(* the signed range, as the target's multiply instruction does.  The       *)
(* product is formed from 16-bit halves so that no intermediate value      *)
(* leaves the 32-bit range.                                                *)
(***************************************************************************)
Half == 2 ^ 16

MulInt32(a, k) ==
    LET lo == a % Half
        hi == a \div Half
        pl == k * lo
        h  == (k * hi + (pl \div Half)) % Half
        hs == IF h >= Half \div 2 THEN h - Half ELSE h
    IN  hs * Half + (pl % Half)

\* A led_count for which num_leds * 3 does not fit an int: 3 * WrapLeds is
\* 2^32 + 2, so the int product is 2, and num_leds * 3 * 8 is 16.
\* (0x55555556, written by its 16-bit halves)
WrapLeds == 21845 * Half + 21846

\* A negative led_count whose int product num_leds * 3 is positive:
\* 3 * WrapNegLeds is -(2^32) + 1, so the int product is 1, and
\* num_leds * 3 * 8 is 8.  (0xAAAAAAAB as a signed int)
WrapNegLeds == (-21846) * Half + 43691

\* A led_count whose int product num_leds * 3 is 2^29 and whose
\* num_leds * 3 * 8 is 0.  (0x60000000)
BigWrapLeds == 24576 * Half

(***************************************************************************)
(* Inputs                                                                  *)
(***************************************************************************)
ByteVals == {0, 128, 255}
Pins == {5}
LedCounts == (-1..MaxLeds) \cup {WrapLeds, WrapNegLeds, BigWrapLeds}

RECURSIVE SeqsUpTo(_, _)
SeqsUpTo(S, n) ==
    IF n = 0 THEN {<<>>}
    ELSE LET shorter == SeqsUpTo(S, n - 1)
         IN  shorter \cup {Append(s, x) : s \in {t \in shorter : Len(t) = n - 1}, x \in S}

Datas == SeqsUpTo(ByteVals, MaxDataLen)

\* Terms of the host runtime: only their type tag and payload matter here.
IntTerm(n) == [tag |-> "integer", int |-> n, bin |-> <<>>]
BinTerm(d) == [tag |-> "binary", int |-> 0, bin |-> d]
AtomTerm == [tag |-> "atom", int |-> 0, bin |-> <<>>]

term_is_integer(t) == t.tag = "integer"
term_is_binary(t) == t.tag = "binary"
term_to_int(t) == t.int
term_binary_data(t) == t.bin
term_binary_size(t) == Len(t.bin)

InitArgLists ==
    {<<IntTerm(p), IntTerm(n)>> : p \in Pins, n \in LedCounts}
    \cup {<<IntTerm(5)>>, <<IntTerm(5), IntTerm(1), IntTerm(1)>>,
          <<AtomTerm, IntTerm(1)>>, <<IntTerm(5), BinTerm(<<>>)>>}

ShowArgLists ==
    {<<BinTerm(d)>> : d \in Datas}
    \cup {<<>>, <<BinTerm(<<>>), BinTerm(<<>>)>>, <<IntTerm(1)>>, <<AtomTerm>>}

(***************************************************************************)
(* Pulse descriptors (rmt_item32_t)                                        *)
(***************************************************************************)
Item(l0, d0, l1, d1) == [level0 |-> l0, duration0 |-> d0, level1 |-> l1, duration1 |-> d1]

\* what calloc leaves in an entry
ZeroItem == Item(0, 0, 0, 0)


\* lines 51-63: the descriptor written for one bit
BitItem(bit) ==
    IF bit # 0
    THEN Item(1, NS_TO_TICKS(WS2812_T1H_NS), 0, NS_TO_TICKS(WS2812_T1L_NS))
    ELSE Item(1, NS_TO_TICKS(WS2812_T0H_NS), 0, NS_TO_TICKS(WS2812_T0L_NS))

\* Faulty variant of MaskBit: the bits taken least-significant first, byte & (1 << j).
MaskBitLsbFirst(byte, j) == ((byte \div (2 ^ j)) % 2) * (2 ^ j)

\* byte & (1 << (7 - j))
MaskBit(byte, j) == ((byte \div (2 ^ (7 - j))) % 2) * (2 ^ (7 - j))

\* buf[i], for i within the buffer
ReadByte(buf, i) == IF i >= 0 /\ i < Len(buf) THEN buf[i + 1] ELSE 0

\* items[idx] = v, for idx within the buffer
StoreItem(items, idx, v) ==
    IF idx >= 0 /\ idx < Len(items) THEN [items EXCEPT ![idx + 1] = v] ELSE items

\* line 49-64: the inner loop, for (j = 0; j < 8; j++)
RECURSIVE BitLoop(_, _, _, _)
BitLoop(byte, i, j, items) ==
    IF j < 8
    THEN BitLoop(byte, i, j + 1, StoreItem(items, i * 8 + j, BitItem(MaskBit(byte, j))))
    ELSE items

\* line 47-65: the outer loop, for (i = 0; i < len; i++)
RECURSIVE ByteLoop(_, _, _, _)
ByteLoop(buf, len, i, items) ==
    IF i < len
    THEN ByteLoop(buf, len, i + 1, BitLoop(ReadByte(buf, i), i, 0, items))
    ELSE items

\* Faulty variant of neopixel_buf_to_rmt_items: the whole source buffer is encoded,
\* whatever len says.
EncodeWholeBuffer(buf, len, items) == ByteLoop(buf, Len(buf), 0, items)

\* The items buffer after neopixel_buf_to_rmt_items(buf, len, items).
neopixel_buf_to_rmt_items(buf, len, items) == ByteLoop(buf, len, 0, items)

\* Faulty variant of memcpy: the destination beyond the copied bytes is zeroed.
memcpyZeroTail(dst, src, n) ==
    [k \in 1..Len(dst) |-> IF (k <= n \/ n < 0) /\ k <= Len(src) THEN src[k] ELSE 0]

\* memcpy(dst, src, n): dst after the copy (the part of it inside dst)
\* (n is converted to size_t: a negative n is larger than any buffer)
memcpy(dst, src, n) ==
    [k \in 1..Len(dst) |-> IF (k <= n \/ n < 0) /\ k <= Len(src) THEN src[k] ELSE dst[k]]

(***************************************************************************)
(* The heap                                                                *)
(***************************************************************************)
NoState == [pin |-> 0, num_leds |-> 0, pixels |-> NULL, items |-> NULL]

FreeBlock == [live |-> FALSE, kind |-> "none", st |-> NoState, bytes |-> <<>>, pulses |-> <<>>]

LiveAddrs == {a \in Addrs : heap[a].live}

\* The address malloc/calloc hands out: the lowest free one (0 when none).
FirstFree(h) ==
    IF \A a \in Addrs : h[a].live THEN NULL
    ELSE CHOOSE a \in Addrs : ~h[a].live /\ \A b \in Addrs : b < a => h[b].live

\* Bytes the modelled heap can give to one request: the pulse buffer of
\* MaxLeds LEDs.
HeapBytes == MaxLeds * 3 * 8 * SizeofItem

\* Whether calloc(nmemb, size) can succeed at all.  nmemb is the int the
\* caller computed; converted to size_t a negative int is at least 2^31.
CallocFits(nmemb, size) == nmemb >= 0 /\ nmemb <= HeapBytes \div size

\* free(p) on heap h
free(h, p) == IF p \in Addrs THEN [h EXCEPT ![p] = FreeBlock] ELSE h

\* free(p) of something that is not a live allocation
BadFree(h, p) == ~(p \in Addrs /\ h[p].live)

ZeroBytes(n) == [k \in 1..n |-> 0]
ZeroItems(n) == [k \in 1..n |-> ZeroItem]

\* g_state->field
Deref(h, p) == IF p \in Addrs THEN h[p].st ELSE NoState
PixelsOf(h, p) == IF p \in Addrs THEN h[p].bytes ELSE <<>>
ItemsOf(h, p) == IF p \in Addrs THEN h[p].pulses ELSE <<>>


\* A use of pointer p that does not point to a live allocation.
Dangling(h, p) == ~(p \in Addrs /\ h[p].live)

\* The first n entries of a buffer (all of it when n exceeds it).
Take(seq, n) == IF n <= 0 THEN <<>> ELSE SubSeq(seq, 1, IF n < Len(seq) THEN n ELSE Len(seq))

(***************************************************************************)
(* The peripheral driver.  Its code is not part of the repository: each    *)
(* call returns an esp_err_t the model chooses. ESP_ERROR_CHECK aborts the *)
(* process on anything but ESP_OK.                                         *)
(***************************************************************************)
EspErrs == {"ESP_OK", "ESP_FAIL"}

NoConfig ==
    [rmt_mode |-> "none", channel |-> 0, clk_div |-> 0, gpio_num |-> 0, mem_block_num |-> 0,
     loop_en |-> FALSE, carrier_en |-> FALSE, idle_output_en |-> FALSE, idle_level |-> 0]

\* lines 125-137
rmt_cfg(pin) ==
    [rmt_mode |-> "RMT_MODE_TX", channel |-> RMT_CHANNEL, clk_div |-> 1, gpio_num |-> pin,
     mem_block_num |-> 1, loop_en |-> FALSE, carrier_en |-> FALSE, idle_output_en |-> TRUE,
     idle_level |-> 0]

\* line 128: the clock the channel divides, "80MHz / 1 = 80MHz -> 12.5ns per tick"
APB_CLK_MHZ == 80

\* The length of one tick of a channel programmed with clk_div, in picoseconds.
TickPs(clk_div) == (clk_div * 1000000) \div APB_CLK_MHZ

\* line 179: pdMS_TO_TICKS(100), the longest rmt_wait_tx_done may block
WaitTxDoneMs == 100

\* A call of a driver primitive: the descriptors handed over, how long the
\* call may block (0: it does not wait, line 176 passes wait_tx_done = false)
\* and the esp_err_t it reported.
DrvCall(fn, train, wait_ms, err) ==
    [fn |-> fn, train |-> train, wait_ms |-> wait_ms, err |-> err]

\* line 179: what rmt_wait_tx_done may report: ESP_OK when the transmission
\* has completed, ESP_ERR_TIMEOUT (driver/rmt.h, line 7) when the wait time
\* has elapsed first, ESP_FAIL for a fault.
WaitErrs == EspErrs \cup {"ESP_ERR_TIMEOUT"}

\* line 140: what rmt_driver_install may report.  The code installs the driver
\* in every initialize and never uninstalls it; for a channel whose driver is
\* already installed the driver's interface (driver/rmt.h, line 7) documents
\* ESP_ERR_INVALID_STATE.
InstallErrs(installed) ==
    EspErrs \cup (IF installed THEN {"ESP_ERR_INVALID_STATE"} ELSE {})

(***************************************************************************)
(* Execution contexts                                                      *)
(***************************************************************************)
Ctx == {1, 2}

IdleCtx ==
    [pc |-> "idle", op |-> "none", argv |-> <<>>, pin |-> 0, num_leds |-> 0,
     buffer |-> <<>>, byte_count |-> 0, ret |-> "none", drv |-> <<>>]

\* A NIF returns value r.
Return(c, r) == [ctx[c] EXCEPT !.pc = "done", !.ret = r]

Goto(c, label) == [ctx[c] EXCEPT !.pc = label]

\* The statements of show from the copy to the return of the wait.
ShowSection == {"show_memcpy", "show_encode", "show_write", "show_wait"}

\* Faulty variant of At: a lock is taken before the copy of show and held
\* until the call returns.
AtLocked(c, label) ==
    /\ ~aborted
    /\ ctx[c].pc = label
    /\ (label = "show_memcpy" =>
            \A d \in Ctx \ {c} : ctx[d].pc \notin (ShowSection \ {"show_memcpy"}))

At(c, label) == ~aborted /\ ctx[c].pc = label

\* The output line of the channel (idle level 0, line 136): whether a frame
\* is being clocked out, and for how long the line has been idle low since
\* the last frame ended (counted up to WS2812_RESET_US).  Before the first
\* frame it has been low since power-up.
IdleLine == [busy |-> FALSE, low_us |-> WS2812_RESET_US]

Init ==
    /\ g_state = NULL
    /\ heap = [a \in Addrs |-> FreeBlock]
    /\ rmt = [config |-> NoConfig, installed |-> FALSE]
    /\ ctx = [c \in Ctx |-> IdleCtx]
    /\ faults = {}
    /\ aborted = FALSE
    /\ enc = [buf |-> <<>>, items |-> <<>>, done |-> FALSE]
    /\ max_copy = 0
    /\ line = IdleLine

(***************************************************************************)
(* nif_rmt_neopixel_init                                                   *)
(***************************************************************************)
\* Faulty variant of InitEnter: the term_is_integer test (lines 78-80) is missing.
InitEnterNoTypeCheck(c) ==
    /\ ~aborted
    /\ ctx[c].pc \in {"idle", "done"}
    /\ \E argv \in InitArgLists :
        LET argc == Len(argv)
            call == [IdleCtx EXCEPT !.op = "init", !.argv = argv]
        IN  ctx' = [ctx EXCEPT ![c] =
                IF argc # 2 THEN [call EXCEPT !.pc = "done", !.ret = "BADARITY"]
                ELSE [call EXCEPT !.pc = "init_free_pixels",
                                  !.pin = term_to_int(argv[1]),
                                  !.num_leds = term_to_int(argv[2])]]
    /\ UNCHANGED <<g_state, heap, rmt, faults, aborted, enc, max_copy, line>>

\* lines 71-85: the argument checks and conversions
InitEnter(c) ==
    /\ ~aborted
    /\ ctx[c].pc \in {"idle", "done"}
    /\ \E argv \in InitArgLists :
        LET argc == Len(argv)
            call == [IdleCtx EXCEPT !.op = "init", !.argv = argv]
        IN  ctx' = [ctx EXCEPT ![c] =
                IF argc # 2 THEN [call EXCEPT !.pc = "done", !.ret = "BADARITY"]
                ELSE IF ~term_is_integer(argv[1]) \/ ~term_is_integer(argv[2])
                THEN [call EXCEPT !.pc = "done", !.ret = "BADARG"]
                ELSE [call EXCEPT !.pc = "init_free_pixels",
                                  !.pin = term_to_int(argv[1]),
                                  !.num_leds = term_to_int(argv[2])]]
    /\ UNCHANGED <<g_state, heap, rmt, faults, aborted, enc, max_copy, line>>

\* Faulty variant of InitFreePixels: the release waits until no show of another
\* context is between its g_state test and its return.
InitFreePixelsWaits(c) ==
    /\ At(c, "init_free_pixels")
    /\ \A d \in Ctx \ {c} : ctx[d].pc \notin (ShowSection \cup {"show_clamp"})
    /\ IF g_state = NULL
       THEN /\ ctx' = [ctx EXCEPT ![c] = Goto(c, "init_malloc")]
            /\ UNCHANGED <<heap, faults>>
       ELSE LET p == Deref(heap, g_state).pixels
            IN  /\ heap' = IF p # NULL THEN free(heap, p) ELSE heap
                /\ faults' = faults
                      \cup (IF Dangling(heap, g_state) THEN {"use_after_free"} ELSE {})
                      \cup (IF p # NULL /\ BadFree(heap, p) THEN {"bad_free"} ELSE {})
                /\ ctx' = [ctx EXCEPT ![c] = Goto(c, "init_free_items")]
    /\ UNCHANGED <<g_state, rmt, aborted, enc, max_copy, line>>

\* lines 88-92: if (g_state != NULL) { if (g_state->pixels != NULL) free(g_state->pixels);
InitFreePixels(c) ==
    /\ At(c, "init_free_pixels")
    /\ IF g_state = NULL
       THEN /\ ctx' = [ctx EXCEPT ![c] = Goto(c, "init_malloc")]
            /\ UNCHANGED <<heap, faults>>
       ELSE LET p == Deref(heap, g_state).pixels
            IN  /\ heap' = IF p # NULL THEN free(heap, p) ELSE heap
                /\ faults' = faults
                      \cup (IF Dangling(heap, g_state) THEN {"use_after_free"} ELSE {})
                      \cup (IF p # NULL /\ BadFree(heap, p) THEN {"bad_free"} ELSE {})
                /\ ctx' = [ctx EXCEPT ![c] = Goto(c, "init_free_items")]
    /\ UNCHANGED <<g_state, rmt, aborted, enc, max_copy, line>>

\* Faulty variant of InitFreeItems: the items buffer of the previous session is not freed.
InitFreeItemsSkipped(c) ==
    /\ At(c, "init_free_items")
    /\ ctx' = [ctx EXCEPT ![c] = Goto(c, "init_free_state")]
    /\ UNCHANGED <<g_state, heap, faults, rmt, aborted, enc, max_copy, line>>

\* lines 93-95: if (g_state->items != NULL) free(g_state->items);
InitFreeItems(c) ==
    /\ At(c, "init_free_items")
    /\ LET p == Deref(heap, g_state).items
       IN  /\ heap' = IF p # NULL THEN free(heap, p) ELSE heap
           /\ faults' = faults
                 \cup (IF Dangling(heap, g_state) THEN {"use_after_free"} ELSE {})
                 \cup (IF p # NULL /\ BadFree(heap, p) THEN {"bad_free"} ELSE {})
    /\ ctx' = [ctx EXCEPT ![c] = Goto(c, "init_free_state")]
    /\ UNCHANGED <<g_state, rmt, aborted, enc, max_copy, line>>

\* line 96: free(g_state);  (g_state keeps the freed address until line 99)
InitFreeState(c) ==
    /\ At(c, "init_free_state")
    /\ heap' = free(heap, g_state)
    /\ faults' = faults \cup (IF BadFree(heap, g_state) THEN {"bad_free"} ELSE {})
    /\ ctx' = [ctx EXCEPT ![c] = Goto(c, "init_malloc")]
    /\ UNCHANGED <<g_state, rmt, aborted, enc, max_copy, line>>

\* The block malloc(sizeof(neopixel_state_t)) returns, after lines 104-105.
NewStateBlock(pin, num_leds) ==
    [live |-> TRUE, kind |-> "state",
     st |-> [pin |-> pin, num_leds |-> num_leds, pixels |-> Uninit, items |-> Uninit],
     bytes |-> <<>>, pulses |-> <<>>]

\* lines 99-105: g_state = malloc(...); if NULL return MEMORY_ERROR_ATOM; set pin, num_leds
InitMalloc(c) ==
    /\ At(c, "init_malloc")
    /\ \E ok \in BOOLEAN :
        LET a == IF ok THEN FirstFree(heap) ELSE NULL
        IN  /\ g_state' = a
            /\ IF a = NULL
               THEN /\ ctx' = [ctx EXCEPT ![c] = Return(c, "MEMORY_ERROR_ATOM")]
                    /\ heap' = heap
               ELSE /\ ctx' = [ctx EXCEPT ![c] = Goto(c, "init_calloc_pixels")]
                    /\ heap' = [heap EXCEPT ![a] = NewStateBlock(ctx[c].pin, ctx[c].num_leds)]
    /\ UNCHANGED <<rmt, faults, aborted, enc, max_copy, line>>

\* The number of elements the pixel buffer is allocated with (line 108).
PixelCount(num_leds) == MulInt32(num_leds, 3)

\* The number of elements the items buffer is allocated with (line 116).
ItemCount(num_leds) == MulInt32(MulInt32(num_leds, 3), 8)

\* lines 108-113: g_state->pixels = calloc(num_leds * 3, 1); on NULL free(g_state), g_state = NULL
InitCallocPixels(c) ==
    /\ At(c, "init_calloc_pixels")
    /\ \E ok \in BOOLEAN :
        LET n == PixelCount(ctx[c].num_leds)
            a == IF ok /\ CallocFits(n, SizeofByte) THEN FirstFree(heap) ELSE NULL
        IN  IF a = NULL
            THEN /\ heap' = free(heap, g_state)
                 /\ faults' = faults \cup (IF BadFree(heap, g_state) THEN {"bad_free"} ELSE {})
                 /\ g_state' = NULL
                 /\ ctx' = [ctx EXCEPT ![c] = Return(c, "MEMORY_ERROR_ATOM")]
            ELSE /\ heap' = [heap EXCEPT
                        ![g_state].st.pixels = a,
                        ![a] = [FreeBlock EXCEPT !.live = TRUE, !.kind = "pixels",
                                                 !.bytes = ZeroBytes(n)]]
                 /\ faults' = faults
                       \cup (IF Dangling(heap, g_state) THEN {"use_after_free"} ELSE {})
                 /\ g_state' = g_state
                 /\ ctx' = [ctx EXCEPT ![c] = Goto(c, "init_calloc_items")]
    /\ max_copy' = 0
    /\ UNCHANGED <<rmt, aborted, enc, line>>

\* Faulty variant of InitCallocItems: on failure the pixel buffer is not released
\* (line 118 missing).
InitCallocItemsLeak(c) ==
    /\ At(c, "init_calloc_items")
    /\ \E ok \in BOOLEAN :
        LET n == ItemCount(ctx[c].num_leds)
            a == IF ok /\ CallocFits(n, SizeofItem) THEN FirstFree(heap) ELSE NULL
        IN  IF a = NULL
            THEN /\ heap' = free(heap, g_state)
                 /\ faults' = faults
                 /\ g_state' = NULL
                 /\ ctx' = [ctx EXCEPT ![c] = Return(c, "MEMORY_ERROR_ATOM")]
            ELSE /\ heap' = [heap EXCEPT
                        ![g_state].st.items = a,
                        ![a] = [FreeBlock EXCEPT !.live = TRUE, !.kind = "items",
                                                 !.pulses = ZeroItems(n)]]
                 /\ faults' = faults
                 /\ g_state' = g_state
                 /\ ctx' = [ctx EXCEPT ![c] = Goto(c, "init_rmt_config")]
    /\ UNCHANGED <<rmt, aborted, enc, max_copy, line>>

\* lines 116-122: g_state->items = calloc(num_leds * 3 * 8, 4); on NULL free both, g_state = NULL
InitCallocItems(c) ==
    /\ At(c, "init_calloc_items")
    /\ \E ok \in BOOLEAN :
        LET n == ItemCount(ctx[c].num_leds)
            a == IF ok /\ CallocFits(n, SizeofItem) THEN FirstFree(heap) ELSE NULL
            px == Deref(heap, g_state).pixels
        IN  IF a = NULL
            THEN /\ heap' = free(free(heap, px), g_state)
                 /\ faults' = faults
                       \cup (IF BadFree(heap, px) \/ BadFree(heap, g_state)
                             THEN {"bad_free"} ELSE {})
                 /\ g_state' = NULL
                 /\ ctx' = [ctx EXCEPT ![c] = Return(c, "MEMORY_ERROR_ATOM")]
            ELSE /\ heap' = [heap EXCEPT
                        ![g_state].st.items = a,
                        ![a] = [FreeBlock EXCEPT !.live = TRUE, !.kind = "items",
                                                 !.pulses = ZeroItems(n)]]
                 /\ faults' = faults
                       \cup (IF Dangling(heap, g_state) THEN {"use_after_free"} ELSE {})
                 /\ g_state' = g_state
                 /\ ctx' = [ctx EXCEPT ![c] = Goto(c, "init_rmt_config")]
    /\ UNCHANGED <<rmt, aborted, enc, max_copy, line>>

\* lines 125-139: ESP_ERROR_CHECK(rmt_config(&rmt_cfg));
InitRmtConfig(c) ==
    /\ At(c, "init_rmt_config")
    /\ \E err \in EspErrs :
        LET called == [ctx[c] EXCEPT !.drv = Append(@, DrvCall("rmt_config", <<>>, 0, err))]
        IN  IF err = "ESP_OK"
            THEN /\ rmt' = [rmt EXCEPT !.config = rmt_cfg(ctx[c].pin)]
                 /\ ctx' = [ctx EXCEPT ![c] = [called EXCEPT !.pc = "init_driver_install"]]
                 /\ aborted' = aborted
            ELSE /\ rmt' = rmt
                 /\ ctx' = [ctx EXCEPT ![c] = [called EXCEPT !.pc = "aborted"]]
                 /\ aborted' = TRUE
    /\ UNCHANGED <<g_state, heap, faults, enc, max_copy, line>>

\* lines 140-142: ESP_ERROR_CHECK(rmt_driver_install(RMT_CHANNEL, 0, 0)); return OK_ATOM;
InitDriverInstall(c) ==
    /\ At(c, "init_driver_install")
    /\ \E err \in InstallErrs(rmt.installed) :
        LET called == [ctx[c] EXCEPT !.drv = Append(@, DrvCall("rmt_driver_install", <<>>, 0, err))]
        IN  IF err = "ESP_OK"
            THEN /\ rmt' = [rmt EXCEPT !.installed = TRUE]
                 /\ ctx' = [ctx EXCEPT ![c] = [called EXCEPT !.pc = "done", !.ret = "OK_ATOM"]]
                 /\ aborted' = aborted
            ELSE /\ rmt' = rmt
                 /\ ctx' = [ctx EXCEPT ![c] = [called EXCEPT !.pc = "aborted"]]
                 /\ aborted' = TRUE
    /\ UNCHANGED <<g_state, heap, faults, enc, max_copy, line>>


(***************************************************************************)
(* nif_rmt_neopixel_show                                                   *)
(***************************************************************************)
\* lines 148-155: the argument checks
ShowEnter(c) ==
    /\ ~aborted
    /\ ctx[c].pc \in {"idle", "done"}
    /\ \E argv \in ShowArgLists :
        LET argc == Len(argv)
            call == [IdleCtx EXCEPT !.op = "show", !.argv = argv]
        IN  ctx' = [ctx EXCEPT ![c] =
                IF argc # 1 THEN [call EXCEPT !.pc = "done", !.ret = "BADARITY"]
                ELSE IF ~term_is_binary(argv[1])
                THEN [call EXCEPT !.pc = "done", !.ret = "BADARG"]
                ELSE [call EXCEPT !.pc = "show_check"]]
    /\ UNCHANGED <<g_state, heap, rmt, faults, aborted, enc, max_copy, line>>

\* Faulty variant of ShowCheck: the test of g_state is missing.
ShowCheckNoNullTest(c) ==
    /\ At(c, "show_check")
    /\ ctx' = [ctx EXCEPT ![c] =
            [ctx[c] EXCEPT !.pc = "show_clamp",
                           !.buffer = term_binary_data(ctx[c].argv[1]),
                           !.byte_count = term_binary_size(ctx[c].argv[1])]]
    /\ UNCHANGED <<g_state, heap, rmt, faults, aborted, enc, max_copy, line>>

\* lines 157-162: if (g_state == NULL) return ERROR_ATOM; buffer, byte_count
ShowCheck(c) ==
    /\ At(c, "show_check")
    /\ ctx' = [ctx EXCEPT ![c] =
            IF g_state = NULL THEN Return(c, "ERROR_ATOM")
            ELSE [ctx[c] EXCEPT !.pc = "show_clamp",
                                !.buffer = term_binary_data(ctx[c].argv[1]),
                                !.byte_count = term_binary_size(ctx[c].argv[1])]]
    /\ UNCHANGED <<g_state, heap, rmt, faults, aborted, enc, max_copy, line>>

\* Faulty variant of ClampCount: the size validation is missing.
ClampCountNone(byte_count, num_leds) == byte_count

\* lines 165-167: the byte count after the size validation
ClampCount(byte_count, num_leds) ==
    IF byte_count > MulInt32(num_leds, 3) THEN MulInt32(num_leds, 3) ELSE byte_count

\* lines 165-167: if (byte_count > g_state->num_leds * 3) byte_count = g_state->num_leds * 3;
ShowClamp(c) ==
    /\ At(c, "show_clamp")
    /\ ctx' = [ctx EXCEPT ![c] =
            [ctx[c] EXCEPT !.pc = "show_memcpy",
                           !.byte_count = ClampCount(@, Deref(heap, g_state).num_leds)]]
    /\ faults' = faults \cup (IF Dangling(heap, g_state) THEN {"use_after_free"} ELSE {})
    /\ UNCHANGED <<g_state, heap, rmt, aborted, enc, max_copy, line>>

\* line 170: memcpy(g_state->pixels, buffer, byte_count);
ShowMemcpy(c) ==
    /\ At(c, "show_memcpy")
    /\ LET px == Deref(heap, g_state).pixels
           n == ctx[c].byte_count
       IN  /\ heap' = IF px \in Addrs
                      THEN [heap EXCEPT ![px].bytes = memcpy(@, ctx[c].buffer, n)]
                      ELSE heap
           /\ faults' = faults
                 \cup (IF Dangling(heap, g_state) \/ Dangling(heap, px)
                       THEN {"use_after_free"} ELSE {})
                 \cup (IF n < 0 \/ n > Len(PixelsOf(heap, px)) THEN {"write_out_of_bounds"} ELSE {})
                 \cup (IF n < 0 \/ n > Len(ctx[c].buffer) THEN {"read_out_of_bounds"} ELSE {})
    /\ ctx' = [ctx EXCEPT ![c] = Goto(c, "show_encode")]
    /\ max_copy' = (IF ctx[c].byte_count > max_copy THEN ctx[c].byte_count ELSE max_copy)
    /\ UNCHANGED <<g_state, rmt, aborted, enc, line>>

\* line 173: neopixel_buf_to_rmt_items(g_state->pixels, byte_count, g_state->items);
ShowEncode(c) ==
    /\ At(c, "show_encode")
    /\ LET px == Deref(heap, g_state).pixels
           it == Deref(heap, g_state).items
           n == ctx[c].byte_count
       IN  /\ heap' = IF it \in Addrs
                      THEN [heap EXCEPT ![it].pulses =
                                neopixel_buf_to_rmt_items(PixelsOf(heap, px), n, @)]
                      ELSE heap
           /\ faults' = faults
                 \cup (IF Dangling(heap, g_state) \/ Dangling(heap, px) \/ Dangling(heap, it)
                       THEN {"use_after_free"} ELSE {})
                 \cup (IF n > 0 /\ n * 8 > Len(ItemsOf(heap, it))
                       THEN {"write_out_of_bounds"} ELSE {})
                 \cup (IF n > Len(PixelsOf(heap, px)) THEN {"read_out_of_bounds"} ELSE {})
    /\ ctx' = [ctx EXCEPT ![c] = Goto(c, "show_write")]
    /\ UNCHANGED <<g_state, rmt, aborted, enc, max_copy, line>>

\* The descriptors rmt_write_items(RMT_CHANNEL, items, item_num, false) is handed.
Submitted(items, byte_count) == Take(items, MulInt32(byte_count, 8))

\* line 176: ESP_ERROR_CHECK(rmt_write_items(RMT_CHANNEL, g_state->items, byte_count * 8, false));
ShowWrite(c) ==
    /\ At(c, "show_write")
    /\ \E err \in EspErrs :
        LET it == Deref(heap, g_state).items
            train == Submitted(ItemsOf(heap, it), ctx[c].byte_count)
            called == [ctx[c] EXCEPT !.drv = Append(@, DrvCall("rmt_write_items", train, 0, err))]
        IN  /\ ctx' = [ctx EXCEPT ![c] =
                    [called EXCEPT !.pc = IF err = "ESP_OK" THEN "show_wait" ELSE "aborted"]]
            /\ aborted' = (err # "ESP_OK")
            /\ faults' = faults
                  \cup (IF Dangling(heap, g_state) \/ Dangling(heap, it)
                        THEN {"use_after_free"} ELSE {})
                  \cup (IF MulInt32(ctx[c].byte_count, 8) > Len(ItemsOf(heap, it))
                        THEN {"read_out_of_bounds"} ELSE {})
            /\ line' = IF err = "ESP_OK" /\ train # <<>> /\ ~line.busy
                       THEN [busy |-> TRUE, low_us |-> 0]
                       ELSE line
    /\ UNCHANGED <<g_state, heap, rmt, enc, max_copy>>

\* Faulty variant of ShowWait: a failed wait is retried once and then reported
\* to the caller instead of aborting.
ShowWaitRetries(c) ==
    /\ At(c, "show_wait")
    /\ \E err \in WaitErrs :
        LET called == [ctx[c] EXCEPT !.drv =
                          Append(@, DrvCall("rmt_wait_tx_done", <<>>, WaitTxDoneMs, err))]
        IN  /\ ctx' = [ctx EXCEPT ![c] =
                    IF err = "ESP_OK" THEN [called EXCEPT !.pc = "done", !.ret = "OK_ATOM"]
                    ELSE IF Len(called.drv) < 3 THEN called
                    ELSE [called EXCEPT !.pc = "done", !.ret = "ERROR_ATOM"]]
            /\ aborted' = aborted
            /\ line' = IF err = "ESP_OK" THEN [line EXCEPT !.busy = FALSE] ELSE line
    /\ UNCHANGED <<g_state, heap, rmt, faults, enc, max_copy>>

\* lines 179-181: ESP_ERROR_CHECK(rmt_wait_tx_done(RMT_CHANNEL, pdMS_TO_TICKS(100))); return OK_ATOM;
ShowWait(c) ==
    /\ At(c, "show_wait")
    /\ \E err \in WaitErrs :
        LET called == [ctx[c] EXCEPT !.drv =
                          Append(@, DrvCall("rmt_wait_tx_done", <<>>, WaitTxDoneMs, err))]
        IN  /\ ctx' = [ctx EXCEPT ![c] =
                    IF err = "ESP_OK" THEN [called EXCEPT !.pc = "done", !.ret = "OK_ATOM"]
                    ELSE [called EXCEPT !.pc = "aborted"]]
            /\ aborted' = (err # "ESP_OK")
            /\ line' = IF err = "ESP_OK" THEN [line EXCEPT !.busy = FALSE] ELSE line
    /\ UNCHANGED <<g_state, heap, rmt, faults, enc, max_copy>>

(***************************************************************************)
(* The program driven by one execution context: calls follow one another.  *)
(***************************************************************************)
Step(c) ==
    \/ InitEnter(c)
    \/ InitFreePixels(c)
    \/ InitFreeItems(c)
    \/ InitFreeState(c)
    \/ InitMalloc(c)
    \/ InitCallocPixels(c)
    \/ InitCallocItems(c)
    \/ InitRmtConfig(c)
    \/ InitDriverInstall(c)
    \/ ShowEnter(c)
    \/ ShowCheck(c)
    \/ ShowClamp(c)
    \/ ShowMemcpy(c)
    \/ ShowEncode(c)
    \/ ShowWrite(c)
    \/ ShowWait(c)

Next == Step(1)

Spec == Init /\ [][Next]_vars

(***************************************************************************)
(* Two execution contexts.  The file holds no lock and no other            *)
(* synchronisation (g_state and its buffers are plain globals, line 41),   *)
(* so the statements of calls made from two contexts interleave freely.    *)
(* The scenario: context 1 initializes until a session is installed; from  *)
(* then on context 1 makes shows while context 2 makes shows and           *)
(* initializes again.                                                      *)
(***************************************************************************)
\* the data the shows of context c carry
ConcData(c) == IF c = 1 THEN <<255>> ELSE <<0>>

ConcInitArgs == {<<IntTerm(pin), IntTerm(MaxLeds)>> : pin \in Pins}

\* the calls context c may begin
ConcCall(c) ==
    IF ~rmt.installed
    THEN c = 1 /\ g_state = NULL /\ ctx'[c].argv \in ConcInitArgs
    ELSE \/ ctx'[c].argv = <<BinTerm(ConcData(c))>>
         \/ c = 2 /\ ctx'[c].argv \in ConcInitArgs

ConcStep(c) ==
    \/ InitEnter(c) /\ ConcCall(c)
    \/ InitFreePixels(c)
    \/ InitFreeItems(c)
    \/ InitFreeState(c)
    \/ InitMalloc(c)
    \/ InitCallocPixels(c)
    \/ InitCallocItems(c)
    \/ InitRmtConfig(c)
    \/ InitDriverInstall(c)
    \/ ShowEnter(c) /\ ConcCall(c)
    \/ ShowCheck(c)
    \/ ShowClamp(c)
    \/ ShowMemcpy(c)
    \/ ShowEncode(c)
    \/ ShowWrite(c)
    \/ ShowWait(c)

NextConc == \E c \in Ctx : ConcStep(c)

SpecConc == Init /\ [][NextConc]_vars

(***************************************************************************)
(* The program and the clock.  No statement of the file waits for a time   *)
(* to pass (WS2812_RESET_US, line 24, is used nowhere), so between two     *)
(* statements any amount of time may pass, none included.                  *)
(***************************************************************************)
\* Time passes while the line is idle: half a reset time at a step.
Tick ==
    /\ ~aborted
    /\ ~line.busy
    /\ line.low_us < WS2812_RESET_US
    /\ line' = [line EXCEPT !.low_us =
                    IF @ + WS2812_RESET_US \div 2 < WS2812_RESET_US
                    THEN @ + WS2812_RESET_US \div 2 ELSE WS2812_RESET_US]
    /\ UNCHANGED <<g_state, heap, rmt, ctx, faults, aborted, enc, max_copy>>

NextTime == Step(1) \/ Tick

SpecTime == Init /\ [][NextTime]_vars

(***************************************************************************)
(* The encoder on its own: a byte sequence is encoded into a zeroed        *)
(* destination that is one byte's worth of descriptors longer than needed. *)
(***************************************************************************)
AllBytes == 0..255

EncInputs ==
    {<<x>> : x \in AllBytes}
    \cup {<<x, y>> : x \in ByteVals, y \in AllBytes}
    \cup SeqsUpTo(ByteVals, MaxEncLen)

InitEnc ==
    /\ g_state = NULL
    /\ heap = [a \in Addrs |-> FreeBlock]
    /\ rmt = [config |-> NoConfig, installed |-> FALSE]
    /\ ctx = [c \in Ctx |-> IdleCtx]
    /\ faults = {}
    /\ aborted = FALSE
    /\ enc \in {[buf |-> b, items |-> ZeroItems(8 * Len(b) + 8), done |-> FALSE] : b \in EncInputs}
    /\ max_copy = 0
    /\ line = IdleLine

Encode ==
    /\ ~enc.done
    /\ enc' = [enc EXCEPT !.items = neopixel_buf_to_rmt_items(enc.buf, Len(enc.buf), @),
                          !.done = TRUE]
    /\ UNCHANGED <<g_state, heap, rmt, ctx, faults, aborted, max_copy, line>>

NextEnc == Encode

SpecEnc == InitEnc /\ [][NextEnc]_vars


(***************************************************************************)
(* Vocabulary of the properties                                            *)
(***************************************************************************)
T0H == NS_TO_TICKS(WS2812_T0H_NS)
T0L == NS_TO_TICKS(WS2812_T0L_NS)
T1H == NS_TO_TICKS(WS2812_T1H_NS)
T1L == NS_TO_TICKS(WS2812_T1L_NS)

\* bit k (0 = most significant) of byte x
BitMsb(x, k) == (x \div (2 ^ (7 - k))) % 2

\* An entry is the pulse of bit value b: high first, then low.
IsPulseOf(item, b) ==
    /\ item.level0 = 1
    /\ item.level1 = 0
    /\ item.duration0 = (IF b = 1 THEN T1H ELSE T0H)
    /\ item.duration1 = (IF b = 1 THEN T1L ELSE T0L)

\* train is the MSB-first pulse train of bytes
IsEncodingOf(train, bytes) ==
    /\ Len(train) = 8 * Len(bytes)
    /\ \A i \in 0..(Len(bytes) - 1) : \A k \in 0..7 :
          IsPulseOf(train[8 * i + k + 1], BitMsb(bytes[i + 1], k))

\* C1: for every byte sequence b of length L, the encoder writes at index
\* 8*i+k the pulse (T1H, T1L) when bit 7-k of b[i] is 1 and (T0H, T0L)
\* otherwise, and writes exactly the entries 0..8L-1: the entries of the
\* destination from 8L on are as they were (zero).
C1_EncoderMsbFirst ==
    enc.done =>
        /\ IsEncodingOf(Take(enc.items, 8 * Len(enc.buf)), enc.buf)
        /\ Len(enc.items) = 8 * Len(enc.buf) + 8
        /\ \A idx \in (8 * Len(enc.buf) + 1)..Len(enc.items) : enc.items[idx] = ZeroItem

C1_Witness ==
    /\ enc.done
    /\ enc.buf = <<128, 1>>
    /\ IsPulseOf(enc.items[1], 1)
    /\ IsPulseOf(enc.items[2], 0)
    /\ IsPulseOf(enc.items[15], 0)
    /\ IsPulseOf(enc.items[16], 1)
    /\ enc.items[17] = ZeroItem


(***************************************************************************)
(* The session in the global slot, and the call a context is executing     *)
(***************************************************************************)
Sess == Deref(heap, g_state)
Pixels == PixelsOf(heap, Sess.pixels)
Items == ItemsOf(heap, Sess.items)

\* Context c is in (or has just finished) a show call with a well-typed argument.
WellTypedShow(c) ==
    /\ ctx[c].op = "show"
    /\ Len(ctx[c].argv) = 1
    /\ term_is_binary(ctx[c].argv[1])

DataOf(c) == ctx[c].argv[1].bin

\* The number of bytes min(len, 3N) stands for, over the integers: none when
\* N is not positive (3N is formed only where it is small).
CopyLen(len, N) ==
    IF N <= 0 THEN 0 ELSE IF N >= len THEN len ELSE IF 3 * N < len THEN 3 * N ELSE len

\* len > 3N and len < 3N over the integers
Exceeds3(len, N) == IF N < 0 THEN TRUE ELSE N < len /\ 3 * N < len
Below3(len, N) == N > 0 /\ (N >= len \/ 3 * N > len)

\* The calls of the transmit primitive made so far by c's current call.
WriteCalls(c) == {k \in 1..Len(ctx[c].drv) : ctx[c].drv[k].fn = "rmt_write_items"}

\* C2: for a live session with led_count N, show(data) hands the transmit
\* primitive exactly copy_len*8 descriptors, copy_len = min(len(data), 3N),
\* and they are the MSB-first encoding of the first copy_len bytes of data
\* (one submission per call, made by the time the call waits or returns).
C2_ShowSubmitsEncodedPrefix ==
    \A c \in Ctx :
        (WellTypedShow(c) /\ g_state # NULL) =>
            /\ \A k \in WriteCalls(c) :
                  IsEncodingOf(ctx[c].drv[k].train,
                               Take(DataOf(c), CopyLen(Len(DataOf(c)), Sess.num_leds)))
            /\ Cardinality(WriteCalls(c)) <= 1
            /\ (ctx[c].pc \in {"show_wait", "done"} => Cardinality(WriteCalls(c)) = 1)


\* C3: when no session is live, a show with a well-typed argument returns
\* the not-initialized error; no step of a show call made without a session
\* changes the heap (the buffers), the session slot or the peripheral, and
\* none calls a driver primitive.
C3_ShowWithoutSession ==
    [][\A c \in Ctx :
          (g_state = NULL /\ ctx'[c].op = "show" /\ ctx'[c] # ctx[c]) =>
              /\ heap' = heap
              /\ g_state' = NULL
              /\ rmt' = rmt
              /\ faults' = faults
              /\ ctx'[c].drv = <<>>
              /\ ctx'[c].pc \in {"show_check", "done"}
              /\ (ctx[c].pc = "show_check" =>
                      ctx'[c].pc = "done" /\ ctx'[c].ret = "ERROR_ATOM")]_vars

\* a show refused after a session had been installed and a later initialize
\* ran out of memory
C3_Witness ==
    /\ WellTypedShow(1)
    /\ ctx[1].pc = "done"
    /\ ctx[1].ret = "ERROR_ATOM"
    /\ ctx[1].drv = <<>>
    /\ g_state = NULL
    /\ LiveAddrs = {}
    /\ rmt.installed

\* C4: for a live session with led_count N, show(data) with len(data) > 3N
\* reads only the first 3N bytes (the count used by the copy, the encoder and
\* the submission is 3N), leaves the pixel buffer equal to those 3N bytes,
\* and when it returns it returns ok.
C4_LongShowTruncates ==
    \A c \in Ctx :
        (WellTypedShow(c) /\ g_state # NULL /\ Exceeds3(Len(DataOf(c)), Sess.num_leds)) =>
            /\ (ctx[c].pc \in {"show_memcpy", "show_encode", "show_write", "show_wait",
                               "done", "aborted"}
                    => ctx[c].byte_count = CopyLen(Len(DataOf(c)), Sess.num_leds))
            /\ (ctx[c].pc \in {"show_encode", "show_write", "show_wait", "done", "aborted"}
                    => Pixels = Take(DataOf(c), CopyLen(Len(DataOf(c)), Sess.num_leds)))
            /\ (ctx[c].pc = "done" => ctx[c].ret = "OK_ATOM")
            /\ "read_out_of_bounds" \notin faults
            /\ "write_out_of_bounds" \notin faults

C4_Witness ==
    /\ WellTypedShow(1)
    /\ ctx[1].pc = "done"
    /\ ctx[1].ret = "OK_ATOM"
    /\ Sess.num_leds = 1
    /\ DataOf(1) = <<255, 0, 128, 255>>
    /\ Pixels = <<255, 0, 128>>

\* C5: for a live session with led_count N, no step of a show(data) with
\* len(data) < 3N changes a pixel-buffer position at index >= len(data).
C5_ShortShowKeepsTail ==
    [][\A c \in Ctx :
          (/\ ctx[c].pc \notin {"idle", "done"}
           /\ WellTypedShow(c)
           /\ g_state # NULL
           /\ Below3(Len(DataOf(c)), Sess.num_leds)) =>
              /\ Len(Pixels') = Len(Pixels)
              /\ \A i \in (Len(DataOf(c)) + 1)..Len(Pixels) : Pixels'[i] = Pixels[i]]_vars

\* after a one-byte show the two bytes of an earlier show are still there
C5_Witness ==
    /\ WellTypedShow(1)
    /\ ctx[1].pc = "done"
    /\ ctx[1].ret = "OK_ATOM"
    /\ DataOf(1) = <<0>>
    /\ Pixels = <<0, 255, 128>>

\* C6: for a live session, no step of a show(data) changes a pulse-buffer
\* entry at index >= 8 * copy_len, copy_len = min(len(data), 3N).
C6_ShowKeepsPulseTail ==
    [][\A c \in Ctx :
          (/\ ctx[c].pc \notin {"idle", "done"}
           /\ WellTypedShow(c)
           /\ g_state # NULL) =>
              /\ Len(Items') = Len(Items)
              /\ \A k \in (8 * CopyLen(Len(DataOf(c)), Sess.num_leds) + 1)..Len(Items) :
                    Items'[k] = Items[k]]_vars

\* after a one-byte show on a fresh session the entries 8..23 are still the
\* zero entries of the allocation
C6_Witness ==
    /\ WellTypedShow(1)
    /\ ctx[1].pc = "done"
    /\ ctx[1].ret = "OK_ATOM"
    /\ Len(DataOf(1)) = 1
    /\ Len(Items) = 24
    /\ IsPulseOf(Items[1], 1)
    /\ \A k \in 9..24 : Items[k] = ZeroItem


LiveOfKind(k) == {a \in LiveAddrs : heap[a].kind = k}

\* C7: across any sequence of initialize calls, at every point at most one
\* state record, one pixel buffer and one pulse buffer are allocated, every
\* allocation is the record in the global slot or one of its two buffers,
\* nothing is freed twice, and when initialize reaches its first allocation
\* (line 99) everything of the previous session has been released.
C7_OneSessionAllocated ==
    /\ "bad_free" \notin faults
    /\ \A k \in {"state", "pixels", "items"} : Cardinality(LiveOfKind(k)) <= 1
    /\ LiveAddrs \subseteq {g_state, Sess.pixels, Sess.items}
    /\ (LiveAddrs # {} => g_state \in LiveOfKind("state"))
    /\ \A c \in Ctx : ctx[c].pc = "init_malloc" => LiveAddrs = {}

\* a second initialize at line 99: the first session was installed, the slot
\* still holds its (freed) address and nothing is allocated
C7_Witness ==
    /\ ctx[1].pc = "init_malloc"
    /\ rmt.installed
    /\ g_state # NULL
    /\ LiveAddrs = {}

InitAllocPcs == {"init_malloc", "init_calloc_pixels", "init_calloc_items"}

\* C8: when an allocation step of initialize (lines 99, 108, 116) does not
\* yield a new allocation, initialize returns the out-of-memory result with
\* nothing left allocated and the global slot NULL; and whenever initialize
\* has returned out-of-memory the slot is NULL and nothing is allocated.
C8_AllocFailureCleansUp ==
    [][\A c \in Ctx :
          /\ (ctx[c].pc \in InitAllocPcs /\ ctx'[c].pc # ctx[c].pc) =>
                IF Cardinality(LiveAddrs') > Cardinality(LiveAddrs)
                THEN ctx'[c].pc \in (InitAllocPcs \cup {"init_rmt_config"})
                ELSE /\ ctx'[c].pc = "done"
                     /\ ctx'[c].ret = "MEMORY_ERROR_ATOM"
                     /\ g_state' = NULL
                     /\ LiveAddrs' = {}
                     /\ faults' = faults
          /\ (ctx'[c].op = "init" /\ ctx'[c].pc = "done" /\ ctx'[c].ret = "MEMORY_ERROR_ATOM") =>
                (g_state' = NULL /\ LiveAddrs' = {})]_vars

\* out-of-memory returned by an initialize that found a session installed
C8_Witness ==
    /\ ctx[1].op = "init"
    /\ ctx[1].pc = "done"
    /\ ctx[1].ret = "MEMORY_ERROR_ATOM"
    /\ rmt.installed
    /\ g_state = NULL
    /\ LiveAddrs = {}

\* The argument list of a call is rejected by the NIF's checks.
BadArgs(op, argv) ==
    IF op = "init"
    THEN Len(argv) # 2 \/ ~term_is_integer(argv[1]) \/ ~term_is_integer(argv[2])
    ELSE Len(argv) # 1 \/ ~term_is_binary(argv[1])

BadArity(op, argv) == Len(argv) # (IF op = "init" THEN 2 ELSE 1)

\* C9: a call of initialize or show with a wrong argument count or type
\* returns its error (BADARITY, BADARG) in the step that enters the call,
\* which leaves the session slot, the heap and the peripheral as they were;
\* a call with good arguments is not rejected.
C9_BadArgsNoEffect ==
    [][\A c \in Ctx :
          (ctx[c].pc \in {"idle", "done"} /\ ctx'[c] # ctx[c]) =>
              IF BadArgs(ctx'[c].op, ctx'[c].argv)
              THEN /\ ctx'[c].pc = "done"
                   /\ ctx'[c].ret = (IF BadArity(ctx'[c].op, ctx'[c].argv)
                                     THEN "BADARITY" ELSE "BADARG")
                   /\ ctx'[c].drv = <<>>
                   /\ UNCHANGED <<g_state, heap, rmt, faults, aborted>>
              ELSE ctx'[c].pc \in {"init_free_pixels", "show_check"}]_vars

\* an initialize with a non-integer argument returned BADARG and the live
\* session is still there
C9_Witness ==
    /\ ctx[1].op = "init"
    /\ ctx[1].pc = "done"
    /\ ctx[1].ret = "BADARG"
    /\ g_state \in LiveOfKind("state")
    /\ Sess.pixels \in LiveOfKind("pixels")
    /\ Sess.items \in LiveOfKind("items")
    /\ Pixels = <<255, 0, 128>>
    /\ rmt.installed

\* C10: after every successful initialize(pin, N) the pixel buffer has
\* exactly 3N bytes, all zero, and the pulse buffer exactly 24N descriptors
\* (3N and 24N over the integers, compared without forming the products).
C10_InitSizesBuffers ==
    \A c \in Ctx :
        (ctx[c].op = "init" /\ ctx[c].pc = "done" /\ ctx[c].ret = "OK_ATOM") =>
            /\ Len(Pixels) % 3 = 0
            /\ Len(Pixels) \div 3 = ctx[c].num_leds
            /\ \A i \in 1..Len(Pixels) : Pixels[i] = 0
            /\ Len(Items) % 24 = 0
            /\ Len(Items) \div 24 = ctx[c].num_leds

\* The session in the slot is complete: record and both buffers allocated.
SessionBuilt ==
    /\ g_state \in LiveOfKind("state")
    /\ Sess.pixels \in LiveOfKind("pixels")
    /\ Sess.items \in LiveOfKind("items")

\* C11: an initialize with a led_count that is zero or negative leaves the
\* slot either empty (nothing allocated) or holding a complete session of
\* empty capacity (no pixel byte, no descriptor); a show on such a session
\* copies and encodes zero bytes, and no access outside a buffer is recorded.
C11_NonPositiveCountEmptySession ==
    /\ \A c \in Ctx :
          (ctx[c].op = "init" /\ ctx[c].pc = "done" /\ ctx[c].num_leds <= 0
              /\ ctx[c].ret \in {"OK_ATOM", "MEMORY_ERROR_ATOM"}) =>
                \/ g_state = NULL /\ LiveAddrs = {}
                \/ SessionBuilt /\ Pixels = <<>> /\ Items = <<>>
    /\ \A c \in Ctx :
          (WellTypedShow(c) /\ SessionBuilt /\ Sess.num_leds <= 0) =>
              /\ (ctx[c].pc \in {"show_memcpy", "show_encode", "show_write", "show_wait",
                                 "done", "aborted"} => ctx[c].byte_count = 0)
              /\ \A k \in WriteCalls(c) : ctx[c].drv[k].train = <<>>
              /\ Pixels = <<>>
              /\ Items = <<>>
    /\ "write_out_of_bounds" \notin faults
    /\ "read_out_of_bounds" \notin faults

\* C12: an initialize made on the peripheral state an earlier initialize
\* left (driver installed), once its allocations have succeeded, goes on to
\* return ok: unless the hardware fails (ESP_FAIL) its configure and install
\* steps succeed, and when it returns exactly one session is allocated, it
\* carries the new led_count, its pixel buffer is all zero and its pulse
\* buffer has eight descriptors per pixel byte.
C12_ReinitReplacesSession ==
    [][\A c \in Ctx :
          (/\ ctx[c].op = "init"
           /\ ctx[c].pc \in {"init_rmt_config", "init_driver_install"}
           /\ rmt.installed
           /\ ctx'[c] # ctx[c]
           /\ \A k \in 1..Len(ctx'[c].drv) : ctx'[c].drv[k].err # "ESP_FAIL") =>
              /\ ctx'[c].pc \in {"init_driver_install", "done"}
              /\ (ctx'[c].pc = "done" =>
                      /\ ctx'[c].ret = "OK_ATOM"
                      /\ SessionBuilt'
                      /\ \A k \in {"state", "pixels", "items"} : Cardinality(LiveOfKind(k)') = 1
                      /\ Sess'.num_leds = ctx[c].num_leds
                      /\ \A i \in 1..Len(Pixels') : Pixels'[i] = 0
                      /\ Len(Items') = 8 * Len(Pixels'))]_vars

\* The driver calls of c's current call, by primitive.
CallsOf(c, fn) == {k \in 1..Len(ctx[c].drv) : ctx[c].drv[k].fn = fn}

\* C13: a show on a live session submits the pulses first and then waits,
\* for at most 100 ms; once the wait has ended, by completion of the
\* transmission or by the timeout elapsing, the call returns ok, and it does
\* not return ok before; only a hardware error (ESP_FAIL) reported by the
\* submission or the wait makes it fatal.
C13_ShowWaitsThenReturnsOk ==
    \A c \in Ctx :
        (WellTypedShow(c) /\ ctx[c].drv # <<>>) =>
            /\ ctx[c].drv[1].fn = "rmt_write_items"
            /\ \A k \in CallsOf(c, "rmt_wait_tx_done") :
                  /\ k = 2
                  /\ ctx[c].drv[1].err = "ESP_OK"
                  /\ ctx[c].drv[k].wait_ms = WaitTxDoneMs
                  /\ (ctx[c].drv[k].err \in {"ESP_OK", "ESP_ERR_TIMEOUT"} =>
                          ctx[c].pc = "done" /\ ctx[c].ret = "OK_ATOM")
            /\ (ctx[c].pc = "done" => CallsOf(c, "rmt_wait_tx_done") # {})
            /\ (ctx[c].pc = "aborted" =>
                    \E k \in 1..Len(ctx[c].drv) : ctx[c].drv[k].err = "ESP_FAIL")

DriverSteps == {"rmt_config", "rmt_driver_install", "rmt_write_items", "rmt_wait_tx_done"}

\* C14: a driver step that reports anything but ESP_OK is the last thing its
\* call does: the call has no result and the process is aborted, after which
\* no step is taken at all; within one call each driver step is made at
\* most once (no retry).
C14_DriverErrorAborts ==
    [][/\ ~aborted
       /\ \A c \in Ctx :
             /\ \A fn \in DriverSteps : Cardinality({k \in 1..Len(ctx'[c].drv) :
                                                      ctx'[c].drv[k].fn = fn}) <= 1
             /\ \A k \in 1..Len(ctx'[c].drv) :
                   /\ ctx'[c].drv[k].fn \in DriverSteps
                   /\ (ctx'[c].drv[k].err # "ESP_OK" =>
                          /\ k = Len(ctx'[c].drv)
                          /\ ctx'[c].pc = "aborted"
                          /\ ctx'[c].ret = "none"
                          /\ aborted')
             /\ (ctx'[c].pc = "aborted" <=>
                    (ctx'[c].drv # <<>> /\ ctx'[c].drv[Len(ctx'[c].drv)].err # "ESP_OK"))]_vars

\* a show aborted by a failed wait after a successful submission
C14_Witness ==
    /\ aborted
    /\ ctx[1].op = "show"
    /\ ctx[1].pc = "aborted"
    /\ ctx[1].ret = "none"
    /\ Len(ctx[1].drv) = 2
    /\ ctx[1].drv[1].err = "ESP_OK"
    /\ ctx[1].drv[2].fn = "rmt_wait_tx_done"
    /\ ctx[1].drv[2].err = "ESP_FAIL"

\* C15: no mutual exclusion guards the copy, encode, submit and wait of a
\* show: wherever the other context stands, a context that stands at one of
\* these statements can take it.  (The witness is the interleaving the claim
\* speaks of: a call whose submitted train is not the encoding of its data.)
C15_ShowsNotExcluded ==
    \A c \in Ctx :
        (~aborted /\ ctx[c].pc \in ShowSection) => ENABLED ConcStep(c)

\* context 1 has submitted, for its show of <<255>>, the encoding of the
\* <<0>> that the show of context 2 copied into the same session in between
C15_Witness ==
    /\ WellTypedShow(1) /\ WellTypedShow(2)
    /\ ctx[1].pc = "show_wait"
    /\ ctx[2].pc \in ShowSection
    /\ SessionBuilt
    /\ faults = {}
    /\ ctx[1].byte_count = Len(DataOf(1))
    /\ ~IsEncodingOf(ctx[1].drv[1].train, DataOf(1))
    /\ IsEncodingOf(ctx[1].drv[1].train, DataOf(2))

\* C16: the release steps of initialize (lines 88-97) wait for nothing:
\* wherever the other context stands, in particular inside a show, a
\* context that stands at a release step can take it.  (The witness is the
\* state the claim speaks of: a show in flight has used a freed buffer.)
C16_InitFreesWithoutWaiting ==
    \A c \in Ctx :
        (~aborted /\ ctx[c].pc \in {"init_free_pixels", "init_free_items", "init_free_state"})
            => ENABLED ConcStep(c)

\* the show of context 1 has copied into the pixel buffer that the
\* initialize of context 2 had already freed, and is still in flight
C16_Witness ==
    /\ WellTypedShow(1)
    /\ ctx[1].pc = "show_encode"
    /\ ctx[2].op = "init"
    /\ ctx[2].pc = "init_free_items"
    /\ g_state \in LiveOfKind("state")
    /\ Dangling(heap, Sess.pixels)
    /\ "use_after_free" \in faults

\* The time one descriptor takes on the line, high and low phase together,
\* on the channel as initialize programmed it.
BitPeriodPs(item) == (item.duration0 + item.duration1) * TickPs(rmt.config.clk_div)

\* The nominal bit period the timing constants of lines 20-23 add up to.
NominalBitPs == (WS2812_T0H_NS + WS2812_T0L_NS) * 1000

\* within one tick of rounding per phase
About(ps, nominal) ==
    /\ ps >= nominal - 2 * RMT_TICK_NS * 1000
    /\ ps <= nominal + 2 * RMT_TICK_NS * 1000

\* C17: the 0 symbol and the 1 symbol last the same number of ticks, and on
\* the clock initialize programs (clk_div = 1 on the 80 MHz source) every
\* bit handed to the transmitter lasts about the nominal 1250 ns.
C17_BitPeriodNominal ==
    /\ T0H + T0L = T1H + T1L
    /\ WS2812_T0H_NS + WS2812_T0L_NS = WS2812_T1H_NS + WS2812_T1L_NS
    /\ \A c \in Ctx : \A k \in WriteCalls(c) :
          \A i \in 1..Len(ctx[c].drv[k].train) :
              About(BitPeriodPs(ctx[c].drv[k].train[i]), NominalBitPs)

C19_PulsesAgreeWithPixels ==
    (SessionBuilt /\ \A c \in Ctx : ctx[c].pc # "show_encode") =>
        /\ max_copy <= Len(Pixels)
        /\ Len(Items) = 8 * Len(Pixels)
        /\ \A i \in 0..(Len(Pixels) - 1) : \A k \in 0..7 :
              IF i < max_copy
              THEN IsPulseOf(Items[8 * i + k + 1], BitMsb(Pixels[i + 1], k))
              ELSE Pixels[i + 1] = 0 /\ Items[8 * i + k + 1] = ZeroItem

\* a one-byte show after a two-byte show: the first byte re-encoded, the
\* second still encoded as before, the third never touched
C19_Witness ==
    /\ WellTypedShow(1)
    /\ ctx[1].pc = "done"
    /\ ctx[1].ret = "OK_ATOM"
    /\ DataOf(1) = <<128>>
    /\ max_copy = 2
    /\ Pixels = <<128, 255, 0>>
    /\ IsPulseOf(Items[1], 1)
    /\ IsPulseOf(Items[2], 0)
    /\ IsPulseOf(Items[16], 1)
    /\ Items[17] = ZeroItem

\* C20: a frame begins only when the line has been low for at least the
\* reset time since the frame before it ended, however soon after the
\* return of one show the next one is made.
C20_ResetGapBetweenFrames ==
    [][(line'.busy /\ ~line.busy) => line.low_us >= WS2812_RESET_US]_vars

====
